---- MODULE Spec2Model ----
(***************************************************************************)
(* A model of gousset (src/gousset/core.py): the timing instrumentation    *)
(* of the callables of a module, the registry of original functions, the   *)
(* timing series, the statistics report and the exit hook, driven by a     *)
(* caller that instruments, invokes and restores the two test modules      *)
(* src/tests/module_a.py and src/tests/module_b.py.                         *)
(*                                                                         *)
(* A dotted name is a sequence of its segments ("a.b" is <<"a", "b">>), so  *)
(* that the registry key f"{module_name}.{func_name}" and its rsplit(".",1) *)
(* are computed as the code computes them.                                  *)
(* A callable is a record [kind, mod, name, layers]: mod and name are the   *)
(* __module__ and __name__ of the innermost function (functools.wraps       *)
(* copies them to every wrapper), layers lists the timing wrappers around   *)
(* it, innermost first, each as the <<module_name, func_name>> its closure  *)
(* records under.                                                           *)
(* A value (argument or result) is a record [t, s, v]: t is its type, s its *)
(* text when it is a string or an exception, v its integers (an int n is    *)
(* <<n>>, a list its elements).                                             *)
(***************************************************************************)
EXTENDS Integers, Sequences, FiniteSets, TLC

\* ---------------------------------------------------------------- bounds

\* Most operations the caller performs in one run.
MaxOps == 4
\* Largest integer argument an invocation is given.
MaxArg == 2
\* Longest list argument an invocation is given.
MaxLen == 1
\* Most attributes deleted and modules dropped from sys.modules in one run.
MaxRemoved == 1
\* Longest timing series, and largest duration (in milliseconds), a report is
\* computed from when the series are drawn rather than measured.
MaxSeries == 3
MaxSample == 3

\* ------------------------------------------------------ program constants

\* time.sleep(0.001), time.sleep(0.005), time.sleep(0.003): in milliseconds.
SleepFast == 1
SleepSlow == 5
SleepMedium == 3

\* ------------------------------------------------------------------ names

ModA == <<"module_a">>
ModB == <<"module_b">>
Typing == <<"typing">>
TimeMod == <<"time">>

\* The modules the caller holds a reference to.
Modules == {ModA, ModB}

\* The modules whose attributes the program can rebind.
AllModules == Modules \cup {Typing}

\* f"{module_name}.{func_name}": the segments of both, in order.
MakeKey(module_name, func_name) == module_name \o <<func_name>>

\* key.rsplit(".", 1): what precedes the last dot, and what follows it.
SplitKey(key) == <<SubSeq(key, 1, Len(key) - 1), key[Len(key)]>>

\* ----------------------------------------------------------------- values

IntVal(n) == [t |-> "int", s |-> "", v |-> <<n>>]
StrVal(str) == [t |-> "str", s |-> str, v |-> <<>>]
ListVal(xs) == [t |-> "list", s |-> "", v |-> xs]
NoneVal == [t |-> "none", s |-> "", v |-> <<>>]
Exc(name) == [t |-> "exc", s |-> name, v |-> <<>>]

Func(m, n) == [kind |-> "function", mod |-> m, name |-> n, layers |-> <<>>]
ModuleObj(m) == [kind |-> "module", mod |-> m, name |-> "", layers |-> <<>>]
Absent == [kind |-> "absent", mod |-> <<>>, name |-> "", layers |-> <<>>]

\* callable(obj) and not inspect.isclass(obj) and not inspect.ismodule(obj)
Eligible(obj) == obj.kind = "function"

\* name.startswith("_")
IsPrivate(name) == name \in {"__doc__", "__name__"}

\* dir(module_a), dir(module_b): the attribute names, sorted as Python sorts
\* them (upper case, then the underscore, then lower case).
DirA == <<"__doc__", "__name__", "fast_function", "medium_function", "slow_function", "time">>
DirB == <<"List", "__doc__", "__name__", "factorial", "fibo", "sum_squares">>

DirTyping == <<"List">>

AllNames(m) == IF m = ModA THEN DirA ELSE IF m = ModB THEN DirB ELSE DirTyping

Range(f) == {f[i] : i \in DOMAIN f}

NameSet(m) == Range(AllNames(m))

\* The callables each module holds when imported: module_b holds typing.List
\* (from typing import List), a callable that is neither a class nor a module.
FuncNames(m) ==
  IF m = ModA THEN {"fast_function", "medium_function", "slow_function"}
  ELSE IF m = ModB THEN {"List", "factorial", "fibo", "sum_squares"}
  ELSE {"List"}

\* The attributes of a freshly imported module.
InitAttr(m, n) ==
  CASE m = ModA /\ n = "time" -> ModuleObj(TimeMod)
    [] m = ModB /\ n = "List" -> Func(Typing, "List")
    [] n \in FuncNames(m) -> Func(m, n)
    [] OTHER -> [kind |-> "data", mod |-> <<>>, name |-> n, layers |-> <<>>]

\* The Callable Identities: <<module_name, func_name>>.
Idents == UNION {{<<m, n>> : n \in FuncNames(m)} : m \in AllModules}

\* The registry keys of the identities.
Keys == {MakeKey(id[1], id[2]) : id \in Idents}

VARIABLES
  attrs,          \* attrs[m][n]: what module m binds name n to (Absent: deleted)
  sys_modules,    \* the names in sys.modules
  _timings,       \* _timings[<<m, n>>] is the series of (m, n); <<>> when absent
  _instrumented_modules, \* the names of the modules instrument has processed
  _original_functions,   \* key -> callable, Absent when not a key
  _registered_exit,      \* whether the exit handler is taken to be registered
  atexitCallbacks,\* how many times _print_all_statistics is registered with atexit
  last,           \* the last operation of the caller and how it ended
  ops,            \* how many operations the caller has performed
  bulkOnly,       \* history: so far the caller only called instrument, restore_all,
                  \* the report and module functions (no manual path, nothing deleted)
  held            \* the callable the caller keeps a reference to (Absent: none)

vars == <<attrs, sys_modules, _timings, _instrumented_modules, _original_functions, _registered_exit, atexitCallbacks, last, ops, bulkOnly, held>>

\* ------------------------------------------------------- calling a callable

\* What a call gives: the value returned or the exception raised, the samples
\* the timing wrappers on the way appended (<<module_name, func_name, dt>>, in
\* the order appended) and the time the call took.
Returned(val, samples, elapsed) == [raised |-> FALSE, val |-> val, samples |-> samples, elapsed |-> elapsed]
Raised(name, samples, elapsed) == [raised |-> TRUE, val |-> Exc(name), samples |-> samples, elapsed |-> elapsed]

\* fibo's list for a list of length n: [], [0], or [0, 1, fibs[-1] + fibs[-2], ...]
RECURSIVE Fibs(_)
Fibs(n) ==
  IF n = 0 THEN <<>>
  ELSE IF n = 1 THEN <<0>>
  ELSE IF n = 2 THEN <<0, 1>>
  ELSE LET f == Fibs(n - 1) IN Append(f, f[Len(f)] + f[Len(f) - 1])

\* sum(i * i for i in range(1, n + 1))
RECURSIVE SumSquares(_)
SumSquares(n) == IF n <= 0 THEN 0 ELSE SumSquares(n - 1) + n * n

\* One wrapper around c, recording under (module_name, func_name).
_create_timed_function(c, func_name, module_name) ==
  [c EXCEPT !.layers = Append(@, <<module_name, func_name>>)]

\* The callable a wrapper's closure holds as original_func.
Inner(c) == [c EXCEPT !.layers = SubSeq(@, 1, Len(@) - 1)]

RECURSIVE Call(_, _, _, _)
\* The body of the function (c.mod, c.name) run on args while the modules hold
\* env; a name the body reads is looked up in its module when the body runs.
Body(env, c, args, jit) ==
  CASE c.mod = Typing ->
         \* typing.List(...): "Type List cannot be instantiated"
         Raised("TypeError", <<>>, 0)
    [] c.mod = ModA /\ c.name = "fast_function" ->
         IF args # <<>> THEN Raised("TypeError", <<>>, 0)
         ELSE Returned(StrVal("fast result"), <<>>, SleepFast)
    [] c.mod = ModA /\ c.name = "medium_function" ->
         IF args # <<>> THEN Raised("TypeError", <<>>, 0)
         ELSE Returned(StrVal("medium result"), <<>>, SleepMedium)
    [] c.mod = ModA /\ c.name = "slow_function" ->
         IF args # <<>> THEN Raised("TypeError", <<>>, 0)
         ELSE LET g == env[ModA]["fast_function"] IN
              IF g.kind = "absent" THEN Raised("NameError", <<>>, SleepSlow)
              ELSE LET r == Call(env, g, <<>>, jit) IN
                   IF r.raised THEN [r EXCEPT !.elapsed = @ + SleepSlow]
                   ELSE Returned(StrVal("slow result"), r.samples, r.elapsed + SleepSlow)
    [] c.mod = ModB /\ c.name = "fibo" ->
         IF Len(args) # 1 \/ args[1].t # "list" THEN Raised("TypeError", <<>>, 0)
         ELSE Returned(ListVal(Fibs(Len(args[1].v))), <<>>, 0)
    [] c.mod = ModB /\ c.name = "sum_squares" ->
         IF Len(args) # 1 \/ args[1].t # "int" THEN Raised("TypeError", <<>>, 0)
         ELSE Returned(IntVal(SumSquares(args[1].v[1])), <<>>, 0)
    [] c.mod = ModB /\ c.name = "factorial" ->
         IF Len(args) # 1 \/ args[1].t # "int" THEN Raised("TypeError", <<>>, 0)
         ELSE LET n == args[1].v[1] IN
              IF n <= 1 THEN Returned(IntVal(1), <<>>, 0)
              ELSE LET g == env[ModB]["factorial"] IN
                   IF g.kind = "absent" THEN Raised("NameError", <<>>, 0)
                   ELSE LET r == Call(env, g, <<IntVal(n - 1)>>, jit) IN
                        IF r.raised THEN r
                        ELSE IF r.val.t # "int"
                          THEN \* None * n
                               Raised("TypeError", r.samples, r.elapsed)
                        ELSE Returned(IntVal(r.val.v[1] * n), r.samples, r.elapsed)

\* A timed_wrapper that forgets to return the result of original_func.
CallDropResult(env, c, args, jit) ==
  IF c.kind # "function" THEN Raised("TypeError", <<>>, 0)
  ELSE IF c.layers = <<>> THEN Body(env, c, args, jit)
  ELSE LET id == c.layers[Len(c.layers)]
           r == Call(env, Inner(c), args, jit)
           dt == r.elapsed + jit
       IN IF r.raised THEN [r EXCEPT !.elapsed = dt]
          ELSE [r EXCEPT !.val = NoneVal, !.samples = Append(@, <<id[1], id[2], dt>>), !.elapsed = dt]

\* A timed_wrapper that stores the timing in a finally clause: a call that
\* raises is recorded too.
CallRecordOnRaise(env, c, args, jit) ==
  IF c.kind # "function" THEN Raised("TypeError", <<>>, 0)
  ELSE IF c.layers = <<>> THEN Body(env, c, args, jit)
  ELSE LET id == c.layers[Len(c.layers)]
           r == Call(env, Inner(c), args, jit)
           dt == r.elapsed + jit
       IN [r EXCEPT !.samples = Append(@, <<id[1], id[2], dt>>), !.elapsed = dt]

\* c(*args): a timed_wrapper calls its original_func, and when that returns
\* appends te - ts to the series of its identity; a function runs its body.
Call(env, c, args, jit) ==
  IF c.kind # "function" THEN Raised("TypeError", <<>>, 0)
  ELSE IF c.layers = <<>> THEN Body(env, c, args, jit)
  ELSE LET id == c.layers[Len(c.layers)]
           r == Call(env, Inner(c), args, jit)
           dt == r.elapsed + jit
       IN IF r.raised THEN [r EXCEPT !.elapsed = dt]
          ELSE [r EXCEPT !.samples = Append(@, <<id[1], id[2], dt>>), !.elapsed = dt]

\* A recorder that keeps only the last sample of a call: the samples of the
\* nested calls are lost.
RecordLast(tm, samples) ==
  IF samples = <<>> THEN tm
  ELSE LET smp == samples[Len(samples)] IN
       [tm EXCEPT ![<<smp[1], smp[2]>>] = Append(@, smp[3])]

\* _timings after the samples of one call are appended, in order.
RECURSIVE Record(_, _)
Record(tm, samples) ==
  IF samples = <<>> THEN tm
  ELSE LET smp == Head(samples) IN
       Record([tm EXCEPT ![<<smp[1], smp[2]>>] = Append(@, smp[3])], Tail(samples))

\* ------------------------------------------------------------- the program

\* The only= and exclude= arguments as the caller gives them: None, one name
\* as a string, or a list of names.
NoFilter == [t |-> "none", names |-> <<>>]
StrFilter(n) == [t |-> "str", names |-> <<n>>]
ListFilter(ns) == [t |-> "list", names |-> ns]

\* A normalisation without the isinstance(only, str) case: set(only) of a
\* string is the set of its characters, none of which is a name of the module.
NormalizeChars(f) ==
  [given |-> f.t # "none", names |-> IF f.t = "str" THEN {} ELSE Range(f.names)]

\* {only} for a string, set(only) for a list; given is FALSE for None.
Normalize(f) == [given |-> f.t # "none", names |-> Range(f.names)]

\* hasattr(module, name)
HasAttr(env, m, n) == n \in NameSet(m) /\ env[m][n].kind # "absent"

\* The last operation of the caller: the operation, its arguments, the
\* exception it raised ("" for none), the value it returned, whether it
\* returned early because the module was already instrumented, what it printed
\* (the entries of restore_all's DEBUG lines, the blocks of the statistics
\* report) and, for a report, whether the operation before it was a report too.
Outcome(op, args, exc, val) ==
  [op |-> op, args |-> args, exc |-> exc, val |-> val, already |-> FALSE, out |-> {}, again |-> FALSE]

\* _register_exit_handler: the flag and the number of atexit registrations after it.
_register_exit_handler(flag, callbacks) ==
  IF ~flag THEN [flag |-> TRUE, callbacks |-> callbacks + 1]
  ELSE [flag |-> flag, callbacks |-> callbacks]

\* The loop of _instrument_module over dir(module) from its i-th name on: st
\* holds the modules, the registry and the exception that ended the loop ("" for
\* none). A keyword argument of instrument reaches _create_timed_function, which
\* takes none: the call raises TypeError once the original is stored.
RECURSIVE InstrumentLoop(_, _, _, _, _, _)
InstrumentLoop(st, m, i, only, exclude, kwargs) ==
  IF i > Len(AllNames(m)) \/ st.exc # "" THEN st
  ELSE LET name == AllNames(m)[i]
           obj == st.attrs[m][name]
           skip == \/ ~HasAttr(st.attrs, m, name)
                   \/ IsPrivate(name)
                   \/ (only.given /\ name \notin only.names)
                   \/ (exclude.given /\ name \in exclude.names)
                   \/ ~Eligible(obj)
           stored == [st._original_functions EXCEPT ![MakeKey(m, name)] = obj]
           next == IF skip THEN st
                   ELSE IF kwargs # {} THEN [st EXCEPT !._original_functions = stored, !.exc = "TypeError"]
                   ELSE [st EXCEPT !._original_functions = stored,
                                   !.attrs[m][name] = _create_timed_function(obj, name, m)]
       IN InstrumentLoop(next, m, i + 1, only, exclude, kwargs)

\* An _instrument_module without the test for an instrumented module.
InstrumentModuleAgain(m, only, exclude, kwargs) ==
  LET st == InstrumentLoop([attrs |-> attrs, _original_functions |-> _original_functions, exc |-> ""],
                           m, 1, only, exclude, kwargs)
  IN [attrs |-> st.attrs, _original_functions |-> st._original_functions,
      _instrumented_modules |-> _instrumented_modules \cup {m}, exc |-> st.exc]

\* An _instrument_module whose loop does not apply the exclude filter.
InstrumentModuleNoExclude(m, only, exclude, kwargs) ==
  IF m \in _instrumented_modules
    THEN [attrs |-> attrs, _original_functions |-> _original_functions, _instrumented_modules |-> _instrumented_modules, exc |-> ""]
    ELSE LET st == InstrumentLoop([attrs |-> attrs, _original_functions |-> _original_functions, exc |-> ""],
                                  m, 1, only, [given |-> FALSE, names |-> {}], kwargs)
         IN [attrs |-> st.attrs, _original_functions |-> st._original_functions,
             _instrumented_modules |-> _instrumented_modules \cup {m}, exc |-> st.exc]

\* An _instrument_module in which a name listed in only is wrapped even when
\* exclude lists it too.
InstrumentModuleOnlyWins(m, only, exclude, kwargs) ==
  IF m \in _instrumented_modules
    THEN [attrs |-> attrs, _original_functions |-> _original_functions, _instrumented_modules |-> _instrumented_modules, exc |-> ""]
    ELSE LET kept == IF only.given THEN [exclude EXCEPT !.names = @ \ only.names] ELSE exclude
             st == InstrumentLoop([attrs |-> attrs, _original_functions |-> _original_functions, exc |-> ""],
                                  m, 1, only, kept, kwargs)
         IN [attrs |-> st.attrs, _original_functions |-> st._original_functions,
             _instrumented_modules |-> _instrumented_modules \cup {m}, exc |-> st.exc]

\* An _instrument_module that records the module as instrumented only when
\* it was given no filter.
InstrumentModuleSetWhenWhole(m, only, exclude, kwargs) ==
  IF m \in _instrumented_modules
    THEN [attrs |-> attrs, _original_functions |-> _original_functions, _instrumented_modules |-> _instrumented_modules, exc |-> ""]
    ELSE LET st == InstrumentLoop([attrs |-> attrs, _original_functions |-> _original_functions, exc |-> ""],
                                  m, 1, only, exclude, kwargs)
         IN [attrs |-> st.attrs, _original_functions |-> st._original_functions,
             _instrumented_modules |-> IF only.given \/ exclude.given THEN _instrumented_modules
                                       ELSE _instrumented_modules \cup {m},
             exc |-> st.exc]

\* _instrument_module: [attrs, _original_functions, _instrumented_modules, exc] after it.
_instrument_module(m, only, exclude, kwargs) ==
  IF m \in _instrumented_modules
    THEN [attrs |-> attrs, _original_functions |-> _original_functions, _instrumented_modules |-> _instrumented_modules, exc |-> ""]
    ELSE LET st == InstrumentLoop([attrs |-> attrs, _original_functions |-> _original_functions, exc |-> ""],
                                  m, 1, only, exclude, kwargs)
         IN [attrs |-> st.attrs, _original_functions |-> st._original_functions,
             _instrumented_modules |-> _instrumented_modules \cup {m}, exc |-> st.exc]

\* instrument(module, only, exclude, **kwargs): obj is the first argument, a
\* module or something else.
instrument(obj, only, exclude, kwargs) ==
  LET reg == _register_exit_handler(_registered_exit, atexitCallbacks) IN
  /\ _registered_exit' = reg.flag
  /\ atexitCallbacks' = reg.callbacks
  /\ IF obj.kind # "module"
       THEN /\ last' = Outcome("instrument", <<obj, only, exclude, kwargs>>, "ValueError", NoneVal)
            /\ UNCHANGED <<attrs, sys_modules, _timings, _instrumented_modules, _original_functions>>
       ELSE LET st == _instrument_module(obj.mod, Normalize(only), Normalize(exclude), kwargs) IN
            /\ attrs' = st.attrs
            /\ _original_functions' = st._original_functions
            /\ _instrumented_modules' = st._instrumented_modules
            /\ last' = [Outcome("instrument", <<obj, only, exclude, kwargs>>, st.exc, NoneVal)
                          EXCEPT !.already = obj.mod \in _instrumented_modules]
            /\ UNCHANGED <<sys_modules, _timings>>

\* _instrument_single_function(func), called with no keyword argument.
_instrument_single_function(func) ==
  LET func_name == func.name
      module_name == func.mod
      key == MakeKey(module_name, func_name)
      timed_func == _create_timed_function(func, func_name, module_name)
  IN /\ _original_functions' = [_original_functions EXCEPT ![key] = func]
     /\ attrs' = IF module_name \in sys_modules /\ HasAttr(attrs, module_name, func_name)
                   THEN [attrs EXCEPT ![module_name][func_name] = timed_func]
                   ELSE attrs
     /\ last' = Outcome("single", <<func>>, "", timed_func)
     /\ UNCHANGED <<sys_modules, _timings, _instrumented_modules, _registered_exit, atexitCallbacks>>

\* What restore_all's loop leaves module m bound to for name n: the stored
\* original when the key of (m, n) is in the registry, m is in sys.modules and
\* m has the attribute.
Restored(m, n) ==
  LET key == MakeKey(m, n)
      target == SplitKey(key)
  IN IF /\ key \in Keys
        /\ _original_functions[key].kind # "absent"
        /\ target[1] \in sys_modules
        /\ HasAttr(attrs, target[1], target[2])
       THEN _original_functions[key]
       ELSE attrs[m][n]

EmptyTimings == [id \in Idents |-> <<>>]
EmptyOriginals == [k \in Keys |-> Absent]

\* A restore_all that does not reset _instrumented_modules.
RestoreAllKeepSet ==
  /\ attrs' = [m \in AllModules |-> [n \in NameSet(m) |-> Restored(m, n)]]
  /\ _timings' = EmptyTimings
  /\ _original_functions' = EmptyOriginals
  /\ _registered_exit' = FALSE
  /\ last' = Outcome("restore", <<>>, "", NoneVal)
  /\ UNCHANGED <<sys_modules, atexitCallbacks, _instrumented_modules>>

\* The keys of the registry.
Registered == {k \in Keys : _original_functions[k].kind # "absent"}

\* What the body of restore_all's try prints for one key: the unpacking of
\* key.rsplit(".", 1) raises ValueError for a key without a dot, which the
\* except clause catches and reports.
DebugLine(key) ==
  IF Len(key) < 2 THEN "Error restoring"
  ELSE IF SplitKey(key)[1] \notin sys_modules THEN "not in sys.modules"
  ELSE IF ~HasAttr(attrs, SplitKey(key)[1], SplitKey(key)[2]) THEN "not found in module"
  ELSE "Successfully restored"

\* A restore_all that indexes sys.modules without the membership test and
\* outside a try: a key of a module that left sys.modules raises KeyError
\* before any state is cleared.
RestoreAllUnguarded ==
  IF \E k \in Registered : SplitKey(k)[1] \notin sys_modules
    THEN /\ last' = Outcome("restore", <<>>, "KeyError", NoneVal)
         /\ UNCHANGED <<attrs, sys_modules, _timings, _instrumented_modules, _original_functions,
                        _registered_exit, atexitCallbacks>>
    ELSE /\ attrs' = [m \in AllModules |-> [n \in NameSet(m) |-> Restored(m, n)]]
         /\ _timings' = EmptyTimings
         /\ _instrumented_modules' = {}
         /\ _original_functions' = EmptyOriginals
         /\ _registered_exit' = FALSE
         /\ last' = [Outcome("restore", <<>>, "", NoneVal)
                       EXCEPT !.out = {<<k, DebugLine(k)>> : k \in Registered}]
         /\ UNCHANGED <<sys_modules, atexitCallbacks>>

\* restore_all()
restore_all ==
  /\ attrs' = [m \in AllModules |-> [n \in NameSet(m) |-> Restored(m, n)]]
  /\ _timings' = EmptyTimings
  /\ _instrumented_modules' = {}
  /\ _original_functions' = EmptyOriginals
  /\ _registered_exit' = FALSE
  /\ last' = [Outcome("restore", <<>>, "", NoneVal)
                EXCEPT !.out = {<<k, DebugLine(k)>> : k \in Registered}]
  /\ UNCHANGED <<sys_modules, atexitCallbacks>>

\* sum(times)
RECURSIVE Sum(_)
Sum(times) == IF times = <<>> THEN 0 ELSE Head(times) + Sum(Tail(times))

\* min(times), max(times), of a series that is not empty
Min(times) == CHOOSE x \in Range(times) : \A y \in Range(times) : x <= y
Max(times) == CHOOSE x \in Range(times) : \A y \in Range(times) : x >= y

RECURSIVE GCD(_, _)
GCD(a, b) == IF b = 0 THEN a ELSE GCD(b, a % b)

\* The fraction a / b, b > 0, in lowest terms: <<numerator, denominator>>.
Frac(a, b) == LET g == GCD(a, b) IN <<a \div g, b \div g>>

\* statistics.mean(times): the sum over the count.
Mean(times) == Frac(Sum(times), Len(times))

\* A standard deviation that divides by the count (statistics.pstdev).
PopulationStd2(times) ==
  LET n == Len(times)
      S == Sum(times)
      devs == [i \in 1..n |-> (n * times[i] - S) * (n * times[i] - S)]
  IN Frac(Sum(devs), n * n * n)

\* The square of statistics.stdev(times), for more than one sample: the sum of
\* the squared deviations from the mean, over the count less one. With the
\* mean S / n a deviation is (n * x - S) / n.
Variance(times) ==
  LET n == Len(times)
      S == Sum(times)
      devs == [i \in 1..n |-> (n * times[i] - S) * (n * times[i] - S)]
  IN Frac(Sum(devs), n * n * (n - 1))

\* std_time, as its square: statistics.stdev(times) if len(times) > 1 else 0.0
Std2(times) == IF Len(times) > 1 THEN Variance(times) ELSE <<0, 1>>

\* The block _print_all_statistics prints for one function: its calls, sum,
\* average, standard deviation (as its square), min and max.
Block(module_name, func_name, times) ==
  [module |-> module_name, func |-> func_name,
   count |-> Len(times), total_time |-> Sum(times), avg_time |-> Mean(times),
   std_time2 |-> Std2(times), min_time |-> Min(times), max_time |-> Max(times)]

\* What _print_all_statistics prints: a block for each series that is not
\* empty, nothing when there is none.
Report(tm) == {Block(id[1], id[2], tm[id]) : id \in {i \in Idents : tm[i] # <<>>}}

\* A _print_all_statistics that resets the series it has printed.
PrintAndReset ==
  /\ last' = [Outcome("print", <<>>, "", NoneVal)
                EXCEPT !.out = Report(_timings), !.again = (last.op = "print")]
  /\ _timings' = EmptyTimings
  /\ UNCHANGED <<attrs, sys_modules, _instrumented_modules, _original_functions,
                 _registered_exit, atexitCallbacks>>

\* _print_all_statistics(), called by the caller (at exit it is atexit that
\* calls it).
_print_all_statistics ==
  /\ last' = [Outcome("print", <<>>, "", NoneVal)
                EXCEPT !.out = Report(_timings), !.again = (last.op = "print")]
  /\ UNCHANGED <<attrs, sys_modules, _timings, _instrumented_modules, _original_functions,
                 _registered_exit, atexitCallbacks>>

\* An invocation in which the bodies of the module's functions call one
\* another as the module was imported, not through its present bindings.
InvokeEarlyBound(m, n, args, jit) ==
  IF ~HasAttr(attrs, m, n)
    THEN /\ last' = Outcome("invoke", <<m, n, args>>, "AttributeError", NoneVal)
         /\ UNCHANGED <<attrs, sys_modules, _timings, _instrumented_modules, _original_functions, _registered_exit, atexitCallbacks>>
    ELSE LET imported == [mm \in AllModules |-> [nn \in NameSet(mm) |-> InitAttr(mm, nn)]]
             r == Call(imported, attrs[m][n], args, jit)
         IN /\ _timings' = Record(_timings, r.samples)
            /\ last' = Outcome("invoke", <<m, n, args>>, IF r.raised THEN r.val.s ELSE "",
                                IF r.raised THEN NoneVal ELSE r.val)
            /\ UNCHANGED <<attrs, sys_modules, _instrumented_modules, _original_functions, _registered_exit, atexitCallbacks>>

\* The caller's getattr(module, name)(*args), its measurements noisy by jit.
Invoke(m, n, args, jit) ==
  IF ~HasAttr(attrs, m, n)
    THEN /\ last' = Outcome("invoke", <<m, n, args>>, "AttributeError", NoneVal)
         /\ UNCHANGED <<attrs, sys_modules, _timings, _instrumented_modules, _original_functions, _registered_exit, atexitCallbacks>>
    ELSE LET r == Call(attrs, attrs[m][n], args, jit) IN
         /\ _timings' = Record(_timings, r.samples)
         /\ last' = Outcome("invoke", <<m, n, args>>, IF r.raised THEN r.val.s ELSE "",
                             IF r.raised THEN NoneVal ELSE r.val)
         /\ UNCHANGED <<attrs, sys_modules, _instrumented_modules, _original_functions, _registered_exit, atexitCallbacks>>

\* How many attributes were deleted and modules dropped from sys.modules.
Removed ==
  Cardinality({id \in Idents : attrs[id[1]][id[2]].kind = "absent"})
    + Cardinality(AllModules \ sys_modules)

\* del module.name, by the caller
DelAttr(m, n) ==
  /\ HasAttr(attrs, m, n)
  /\ Removed < MaxRemoved
  /\ attrs' = [attrs EXCEPT ![m][n] = Absent]
  /\ last' = Outcome("delattr", <<m, n>>, "", NoneVal)
  /\ UNCHANGED <<sys_modules, _timings, _instrumented_modules, _original_functions, _registered_exit, atexitCallbacks>>

\* del sys.modules[name], by the caller
Unload(m) ==
  /\ m \in sys_modules
  /\ Removed < MaxRemoved
  /\ sys_modules' = sys_modules \ {m}
  /\ last' = Outcome("unload", <<m>>, "", NoneVal)
  /\ UNCHANGED <<attrs, _timings, _instrumented_modules, _original_functions, _registered_exit, atexitCallbacks>>

\* f = module.name, by the caller, of a name bound to a timing wrapper
Copy(m, n) ==
  /\ HasAttr(attrs, m, n)
  /\ attrs[m][n].layers # <<>>
  /\ held' = attrs[m][n]
  /\ last' = Outcome("copy", <<m, n>>, "", attrs[m][n])
  /\ UNCHANGED <<attrs, sys_modules, _timings, _instrumented_modules, _original_functions, _registered_exit, atexitCallbacks>>

\* f(*args), by the caller, of the reference f it keeps: the timed_wrapper
\* appends to what the global _timings is bound to when it runs.
InvokeHeld(args, jit) ==
  /\ held.kind # "absent"
  /\ LET r == Call(attrs, held, args, jit) IN
       /\ _timings' = Record(_timings, r.samples)
       /\ last' = Outcome("call", <<held, args>>, IF r.raised THEN r.val.s ELSE "",
                           IF r.raised THEN NoneVal ELSE r.val)
  /\ UNCHANGED <<attrs, sys_modules, _instrumented_modules, _original_functions, _registered_exit, atexitCallbacks, held>>

\* ------------------------------------------------------------- the inputs

\* What the caller passes to instrument as its first argument: a module, or
\* an integer.
Targets == {ModuleObj(m) : m \in Modules} \cup {[kind |-> "int", mod |-> <<>>, name |-> "", layers |-> <<>>]}

\* The only=, exclude= and keyword arguments of the caller's instrument calls.
Options(only, exclude, kwargs) == [only |-> only, exclude |-> exclude, kwargs |-> kwargs]
InstrumentCalls ==
  {Options(NoFilter, NoFilter, {}),
   Options(NoFilter, NoFilter, {"measure_func"}),
   Options(StrFilter("fast_function"), NoFilter, {}),
   Options(NoFilter, StrFilter("fast_function"), {}),
   Options(StrFilter("factorial"), NoFilter, {}),
   Options(NoFilter, ListFilter(<<"factorial">>), {}),
   Options(ListFilter(<<"fast_function", "slow_function", "fibo", "time", "__doc__">>),
           StrFilter("fast_function"), {})}

\* The invocations the caller makes: module, name, arguments.
Invocation(m, n, args) == [mod |-> m, name |-> n, args |-> args]
Invocations ==
  {Invocation(ModA, "fast_function", <<>>),
   Invocation(ModA, "slow_function", <<>>),
   Invocation(ModA, "medium_function", <<IntVal(0)>>),
   Invocation(ModB, "fibo", <<ListVal([i \in 1..MaxLen |-> 0])>>),
   Invocation(ModB, "List", <<>>)}
  \cup {Invocation(ModB, "factorial", <<IntVal(k)>>) : k \in 0..MaxArg}

\* The noise, in milliseconds, of the measurements of one invocation.
Jitters == {0, 1}

\* The attributes the caller deletes, and the modules it drops from sys.modules.
Deletable == {<<ModA, "fast_function">>, <<ModB, "factorial">>}
Unloadable == {ModA}

\* The callables the caller hands to the manual path: what module_a binds
\* fast_function to and module_b binds factorial to, now.
Bound == {attrs[ModA]["fast_function"], attrs[ModB]["factorial"]} \ {Absent}

Init ==
  /\ attrs = [m \in AllModules |-> [n \in NameSet(m) |-> InitAttr(m, n)]]
  /\ sys_modules = AllModules
  /\ _timings = EmptyTimings
  /\ _instrumented_modules = {}
  /\ _original_functions = EmptyOriginals
  /\ _registered_exit = FALSE
  /\ atexitCallbacks = 0
  /\ last = Outcome("init", <<>>, "", NoneVal)
  /\ ops = 0
  /\ bulkOnly = TRUE
  /\ held = Absent

\* One more operation of the caller, while the run lasts; bulk tells whether it
\* is instrument, restore_all, the report or an invocation.
Count(bulk) == ops < MaxOps /\ ops' = ops + 1 /\ bulkOnly' = (bulkOnly /\ bulk)

\* An operation of a caller that keeps the reference it holds.
Step(bulk) == Count(bulk) /\ UNCHANGED held

Next ==
  \/ \E obj \in Targets, o \in InstrumentCalls :
       Step(TRUE) /\ instrument(obj, o.only, o.exclude, o.kwargs)
  \/ \E func \in Bound : Step(FALSE) /\ _instrument_single_function(func)
  \/ Step(TRUE) /\ restore_all
  \/ Step(TRUE) /\ _print_all_statistics
  \/ \E c \in Invocations, jit \in Jitters :
       Step(TRUE) /\ Invoke(c.mod, c.name, c.args, jit)
  \/ \E id \in Deletable : Step(FALSE) /\ DelAttr(id[1], id[2])
  \/ \E m \in Unloadable : Step(FALSE) /\ Unload(m)

Spec == Init /\ [][Next]_vars

\* The arguments the caller gives to the reference it keeps: those it gives to
\* the function of that name.
HeldArgs == {c.args : c \in {i \in Invocations : i.mod = held.mod /\ i.name = held.name}}

\* The names the caller copies the binding of.
Copied == {<<ModA, "fast_function">>, <<ModB, "factorial">>}

\* A caller that keeps references to timing wrappers: what the manual path
\* returns and what it copies out of an instrumented module.
NextHeld ==
  \/ \E m \in Modules :
       Step(TRUE) /\ instrument(ModuleObj(m), NoFilter, NoFilter, {})
  \/ \E func \in Bound :
       Count(FALSE) /\ _instrument_single_function(func) /\ held' = last'.val
  \/ \E id \in Copied : Count(FALSE) /\ Copy(id[1], id[2])
  \/ Step(TRUE) /\ restore_all
  \/ \E c \in Invocations, jit \in Jitters :
       Step(TRUE) /\ Invoke(c.mod, c.name, c.args, jit)
  \/ \E args \in HeldArgs, jit \in Jitters : Count(FALSE) /\ InvokeHeld(args, jit)

SpecHeld == Init /\ [][NextHeld]_vars

\* The series of durations a function can have been measured with.
Series == UNION {[1..n -> 1..MaxSample] : n \in 0..MaxSeries}

\* The state after instrument(module_a) and calls of fast_function and
\* medium_function that took any durations: the series of fast_function is any
\* series, that of medium_function is empty or holds one sample.
InitStats ==
  /\ attrs = [m \in AllModules |-> [n \in NameSet(m) |->
                IF m = ModA /\ n \in FuncNames(m)
                  THEN _create_timed_function(InitAttr(m, n), n, m)
                  ELSE InitAttr(m, n)]]
  /\ sys_modules = AllModules
  /\ \E s1 \in Series, s2 \in {<<>>, <<MaxSample>>} :
       _timings = [EmptyTimings EXCEPT ![<<ModA, "fast_function">>] = s1,
                                       ![<<ModA, "medium_function">>] = s2]
  /\ _instrumented_modules = {ModA}
  /\ _original_functions = [k \in Keys |->
        IF \E n \in FuncNames(ModA) : k = MakeKey(ModA, n)
          THEN InitAttr(SplitKey(k)[1], SplitKey(k)[2])
          ELSE Absent]
  /\ _registered_exit = TRUE
  /\ atexitCallbacks = 1
  /\ last = Outcome("init", <<>>, "", NoneVal)
  /\ ops = 0
  /\ bulkOnly = TRUE
  /\ held = Absent

\* The report, of series of any durations.
NextStats == Step(TRUE) /\ _print_all_statistics

SpecStats == InitStats /\ [][NextStats]_vars

\* ------------------------------------------------------------- properties

\* The step is the caller's invocation c (module, name, arguments).
InvokeStep(c) == last'.op = "invoke" /\ last'.args = <<c.mod, c.name, c.args>>

\* The step is the caller's instrument(m, only, exclude, **kwargs) as in o.
InstrumentStep(m, o) ==
  last'.op = "instrument" /\ last'.args = <<ModuleObj(m), o.only, o.exclude, o.kwargs>>

\* Module m binds n to one timing wrapper around the function it was imported with.
SingleWrapped(m, n) == attrs[m][n] = _create_timed_function(InitAttr(m, n), n, m)

\* Module m binds n to a timing wrapper.
Wrapped(m, n) == HasAttr(attrs, m, n) /\ attrs[m][n].layers # <<>>

\* How many times one invocation c runs the function it names: factorial(k)
\* calls factorial k - 1 more times, the other functions do not call themselves.
Runs(c) ==
  IF c.name = "factorial" /\ c.args[1].v[1] > 1 THEN c.args[1].v[1] ELSE 1

\* The samples the step added to the series of (m, n).
Added(m, n) == Len(_timings'[<<m, n>>]) - Len(_timings[<<m, n>>])

\* C1 as claimed: once instrument(N) has wrapped N.f, one invocation of N.f by
\* the caller that returns adds exactly one sample to the series of (N, f),
\* for a recursive f too.
C1_OneSamplePerCallerInvocation ==
  [][\A c \in Invocations :
       (c.mod \in _instrumented_modules /\ SingleWrapped(c.mod, c.name) /\ InvokeStep(c) /\ last'.exc = "")
         => Added(c.mod, c.name) = 1]_vars

\* C1 as amended: once instrument(N) has wrapped N.f, one invocation of N.f by
\* the caller that returns adds one sample to the series of (N, f) for each run
\* of f it causes: one when f does not call itself, k for factorial(k), k >= 1,
\* whose nested calls go through the wrapper bound in the module.
C1_OneSamplePerRun ==
  [][\A c \in Invocations :
       (c.mod \in _instrumented_modules /\ SingleWrapped(c.mod, c.name) /\ InvokeStep(c) /\ last'.exc = "")
         => Added(c.mod, c.name) = Runs(c)]_vars

\* C1's case: instrument(module_b), then one factorial(2), which left two samples.
C1_Witness ==
  /\ ops = 2
  /\ last.op = "invoke" /\ last.exc = ""
  /\ last.args = <<ModB, "factorial", <<IntVal(2)>>>>
  /\ ModB \in _instrumented_modules
  /\ Len(_timings[<<ModB, "factorial">>]) = 2

\* C2 as claimed: an instrument call that raises ValueError (its argument is
\* no module) leaves the timing series, the instrumented set, the registry,
\* the exit flag and the registered exit callbacks as they were.
C2_InvalidArgumentChangesNothing ==
  [][(last'.op = "instrument" /\ last'.exc = "ValueError")
       => UNCHANGED <<attrs, _timings, _instrumented_modules, _original_functions, _registered_exit, atexitCallbacks>>]_vars

\* C3 as claimed: at most one exit callback is ever registered with the process.
C3_AtMostOneExitCallback == atexitCallbacks <= 1

\* C4 as claimed: restore_all leaves every registered identity whose module and
\* attribute still exist bound to the function the module was imported with,
\* without any timing wrapper.
C4_RestoreRebindsOriginal ==
  [][last'.op = "restore"
       => \A id \in Idents :
            (/\ _original_functions[MakeKey(id[1], id[2])].kind # "absent"
             /\ id[1] \in sys_modules
             /\ HasAttr(attrs, id[1], id[2]))
              => attrs'[id[1]][id[2]] = InitAttr(id[1], id[2])]_vars

\* Plain instrument(m): no filter, no keyword argument.
Plain == Options(NoFilter, NoFilter, {})

\* Every function of m is bound to one timing wrapper around the function m
\* was imported with, and the registry holds that function under its key.
FreshlyWrapped(m) ==
  \A n \in FuncNames(m) :
    /\ SingleWrapped(m, n)
    /\ _original_functions[MakeKey(m, n)] = InitAttr(m, n)

\* C5: in a run of instrument, restore_all and invocations, an instrument(N)
\* that follows restore_all is not suppressed: N joins the instrumented set,
\* every function of N is bound to a single wrapper around its
\* pre-instrumentation original, which the registry holds; and each later
\* invocation of a function of N that returns adds one sample per run of it.
C5_ReinstrumentAfterRestore ==
  [][/\ \A m \in Modules :
          (bulkOnly /\ last.op = "restore" /\ InstrumentStep(m, Plain))
            => (m \in _instrumented_modules' /\ ~last'.already /\ FreshlyWrapped(m)')
     /\ \A c \in Invocations :
          (bulkOnly /\ atexitCallbacks >= 2 /\ c.mod \in _instrumented_modules
             /\ Wrapped(c.mod, c.name) /\ InvokeStep(c) /\ last'.exc = "")
            => (SingleWrapped(c.mod, c.name) /\ Added(c.mod, c.name) = Runs(c))]_vars

\* C5's case: instrument(module_a), restore_all(), instrument(module_a), then
\* fast_function(), which left one sample.
C5_Witness ==
  /\ ops = 4 /\ bulkOnly
  /\ atexitCallbacks = 2
  /\ _instrumented_modules = {ModA}
  /\ FreshlyWrapped(ModA)
  /\ last.op = "invoke" /\ last.args = <<ModA, "fast_function", <<>>>>
  /\ Len(_timings[<<ModA, "fast_function">>]) = 1

\* C6: an instrument(N) that directly follows an instrument call and finds N
\* instrumented changes no binding, no registry entry, no set membership, no
\* series and no exit registration; and in a run of instrument and
\* invocations, each invocation of a wrapped function of N that returns adds
\* one sample per run of the function, not two.
C6_SecondInstrumentIsNoOp ==
  [][/\ \A m \in Modules :
          (m \in _instrumented_modules /\ last.op = "instrument" /\ InstrumentStep(m, Plain))
            => (/\ last'.already
                /\ UNCHANGED <<attrs, _original_functions, _instrumented_modules, _timings, sys_modules,
                               _registered_exit, atexitCallbacks>>)
     /\ \A c \in Invocations :
          (bulkOnly /\ atexitCallbacks = 1 /\ c.mod \in _instrumented_modules
             /\ Wrapped(c.mod, c.name) /\ InvokeStep(c) /\ last'.exc = "")
            => Added(c.mod, c.name) = Runs(c)]_vars

\* C6's case: the second of two instrument(module_a) calls returned early and
\* module_a's functions carry one wrapper each.
C6_Witness ==
  /\ ops = 2 /\ bulkOnly
  /\ last.op = "instrument" /\ last.already
  /\ last.args = <<ModuleObj(ModA), NoFilter, NoFilter, {}>>
  /\ FreshlyWrapped(ModA)
  /\ atexitCallbacks = 1

\* What calling the function module m was imported with under name n gives
\* (its value and its exception do not depend on the measurement noise).
OriginalCall(m, n, args) == Call(attrs, InitAttr(m, n), args, 0)

\* C7: after instrument(N), an invocation of a wrapped N.f returns the value
\* the pre-instrumentation original returns for the same arguments.
C7_SameReturnValue ==
  [][\A c \in Invocations :
       (/\ c.mod \in _instrumented_modules
        /\ Wrapped(c.mod, c.name)
        /\ InvokeStep(c)
        /\ ~OriginalCall(c.mod, c.name, c.args).raised)
         => (last'.exc = "" /\ last'.val = OriginalCall(c.mod, c.name, c.args).val)]_vars

\* C7's case: with module_b instrumented, the wrapped factorial(2) returned 2.
C7_Witness ==
  /\ ModB \in _instrumented_modules
  /\ Wrapped(ModB, "factorial")
  /\ last.op = "invoke" /\ last.args = <<ModB, "factorial", <<IntVal(2)>>>>
  /\ last.val = IntVal(2)

\* C8: when the original of a wrapped callable raises, the invocation raises
\* the same exception and changes neither the timing series nor any other
\* state of the program.
C8_RaisePropagatesUnrecorded ==
  [][\A c \in Invocations :
       (/\ Wrapped(c.mod, c.name)
        /\ InvokeStep(c)
        /\ OriginalCall(c.mod, c.name, c.args).raised)
         => (/\ last'.exc = OriginalCall(c.mod, c.name, c.args).val.s
             /\ UNCHANGED <<_timings, attrs, _original_functions, _instrumented_modules, sys_modules,
                            _registered_exit, atexitCallbacks>>)]_vars

\* C8's case: the wrapped slow_function() raised NameError, fast_function
\* having been deleted from module_a, and no series holds a sample.
C8_Witness ==
  /\ Wrapped(ModA, "slow_function")
  /\ last.op = "invoke" /\ last.args = <<ModA, "slow_function", <<>>>>
  /\ last.exc = "NameError"
  /\ _timings = EmptyTimings

\* The names an only= or exclude= argument holds.
FilterNames(f) == Range(f.names)

\* C9: on a module N not yet instrumented, instrument(N, only={g}) binds g, a
\* function of N, to a wrapper around what it was bound to, leaves every other
\* name of N as it was, and adds to the registry the key of (N, g) only.
C9_OnlyWrapsOnlyThat ==
  [][\A m \in Modules : \A o \in InstrumentCalls : \A g \in FuncNames(m) :
       (/\ m \notin _instrumented_modules
        /\ FilterNames(o.only) = {g} /\ o.only.t # "none"
        /\ o.exclude = NoFilter /\ o.kwargs = {}
        /\ HasAttr(attrs, m, g)
        /\ InstrumentStep(m, o))
         => (/\ attrs'[m][g] = _create_timed_function(attrs[m][g], g, m)
             /\ \A n \in NameSet(m) \ {g} : attrs'[m][n] = attrs[m][n]
             /\ _original_functions' = [_original_functions EXCEPT ![MakeKey(m, g)] = attrs[m][g]])]_vars

\* C9's case: instrument(module_a, only="fast_function") as the first call.
C9_Witness ==
  /\ ops = 1
  /\ last.op = "instrument"
  /\ last.args = <<ModuleObj(ModA), StrFilter("fast_function"), NoFilter, {}>>
  /\ SingleWrapped(ModA, "fast_function")
  /\ attrs[ModA]["slow_function"] = InitAttr(ModA, "slow_function")
  /\ attrs[ModA]["medium_function"] = InitAttr(ModA, "medium_function")

\* C10: on a module N not yet instrumented, instrument(N, exclude={g}) binds
\* every function of N but g to a wrapper around what it was bound to and
\* stores that in the registry, and leaves g and the registry entry of (N, g)
\* as they were.
C10_ExcludeWrapsAllButThat ==
  [][\A m \in Modules : \A o \in InstrumentCalls : \A g \in FuncNames(m) :
       (/\ m \notin _instrumented_modules
        /\ FilterNames(o.exclude) = {g} /\ o.exclude.t # "none"
        /\ o.only = NoFilter /\ o.kwargs = {}
        /\ InstrumentStep(m, o))
         => (/\ attrs'[m][g] = attrs[m][g]
             /\ _original_functions'[MakeKey(m, g)] = _original_functions[MakeKey(m, g)]
             /\ \A n \in FuncNames(m) \ {g} :
                  HasAttr(attrs, m, n)
                    => (/\ attrs'[m][n] = _create_timed_function(attrs[m][n], n, m)
                        /\ _original_functions'[MakeKey(m, n)] = attrs[m][n]))]_vars

\* C10's case: instrument(module_b, exclude=["factorial"]) as the first call.
C10_Witness ==
  /\ ops = 1
  /\ last.op = "instrument"
  /\ last.args = <<ModuleObj(ModB), NoFilter, ListFilter(<<"factorial">>), {}>>
  /\ attrs[ModB]["factorial"] = InitAttr(ModB, "factorial")
  /\ _original_functions[MakeKey(ModB, "factorial")] = Absent
  /\ SingleWrapped(ModB, "fibo") /\ SingleWrapped(ModB, "sum_squares") /\ SingleWrapped(ModB, "List")

\* C11: restore_all never raises: a registry entry whose module left
\* sys.modules or whose attribute is gone is skipped, every other entry is
\* rebound to what the registry holds for it, and on return the timing
\* series, the instrumented set and the registry are empty and the exit flag
\* is false.
C11_RestoreNeverRaisesAndClears ==
  [][last'.op = "restore"
       => /\ last'.exc = ""
          /\ _timings' = EmptyTimings
          /\ _instrumented_modules' = {}
          /\ _original_functions' = EmptyOriginals
          /\ ~_registered_exit'
          /\ sys_modules' = sys_modules
          /\ \A id \in Idents :
               LET key == MakeKey(id[1], id[2]) IN
               IF key \in Registered /\ id[1] \in sys_modules /\ HasAttr(attrs, id[1], id[2])
                 THEN attrs'[id[1]][id[2]] = _original_functions[key]
                 ELSE attrs'[id[1]][id[2]] = attrs[id[1]][id[2]]]_vars

\* C11's case: a restore_all that found module_a.fast_function deleted, skipped
\* it and restored module_a.slow_function.
C11_Witness ==
  /\ last.op = "restore" /\ last.exc = ""
  /\ <<MakeKey(ModA, "fast_function"), "not found in module">> \in last.out
  /\ <<MakeKey(ModA, "slow_function"), "Successfully restored">> \in last.out
  /\ attrs[ModA]["fast_function"] = Absent
  /\ attrs[ModA]["slow_function"] = InitAttr(ModA, "slow_function")
  /\ _original_functions = EmptyOriginals /\ _timings = EmptyTimings
  /\ _instrumented_modules = {} /\ ~_registered_exit

\* C12 as claimed: on a module N not yet instrumented that holds an eligible
\* callable, instrument(N, only, exclude, **config) with a config key returns
\* without error and binds every selected callable of N to a wrapper around
\* what it was bound to, as the same call without config keys does.
C12_ConfigKeysAccepted ==
  [][\A m \in Modules : \A o \in InstrumentCalls :
       (/\ m \notin _instrumented_modules
        /\ o.kwargs # {}
        /\ \E n \in FuncNames(m) : HasAttr(attrs, m, n)
        /\ InstrumentStep(m, o))
         => (/\ last'.exc = ""
             /\ attrs' = _instrument_module(m, Normalize(o.only), Normalize(o.exclude), {}).attrs)]_vars

\* C13: _print_all_statistics changes neither the timing series, the
\* instrumented set, the registry nor the exit flag (nor a binding, nor the
\* exit registrations); a report that directly follows a report prints what
\* that one printed; with no sample recorded it prints nothing, and otherwise
\* a block for each series that holds a sample.
C13_ReportChangesNothing ==
  [][last'.op = "print"
       => /\ UNCHANGED <<_timings, _instrumented_modules, _original_functions, _registered_exit,
                         attrs, sys_modules, atexitCallbacks>>
          /\ last'.exc = ""
          /\ (last.op = "print" => last'.out = last.out)
          /\ (_timings = EmptyTimings => last'.out = {})
          /\ \A id \in Idents :
               (_timings[id] # <<>>) <=> (\E b \in last'.out : b.module = id[1] /\ b.func = id[2])]_vars

\* C13's case: the second of two reports in a row, both with a block for
\* module_a.fast_function, whose series is still there.
C13_Witness ==
  /\ last.op = "print" /\ last.again
  /\ \E b \in last.out : b.module = ModA /\ b.func = "fast_function" /\ b.count = 1
  /\ Len(_timings[<<ModA, "fast_function">>]) = 1

\* The total of the first n durations of a series.
RECURSIVE Total(_, _)
Total(times, n) == IF n = 0 THEN 0 ELSE Total(times, n - 1) + times[n]

\* The total of the squares of the first n durations of a series.
RECURSIVE TotalSquares(_, _)
TotalSquares(times, n) == IF n = 0 THEN 0 ELSE TotalSquares(times, n - 1) + times[n] * times[n]

\* C14: each block of a report gives, for the series s of its function, which
\* is not empty: count = the length of s, sum = the total of s, min and max =
\* the smallest and the largest element of s, mean = sum / count, and a
\* standard deviation that is the sample standard deviation of s for
\* count > 1 (its square times count * (count - 1) is count * (the total of
\* the squares) - sum * sum) and 0 for count = 1. Durations are integers of
\* milliseconds, quotients are exact fractions <<numerator, denominator>>.
C14_ReportedStatistics ==
  last.op = "print" =>
    \A b \in last.out :
      LET s == _timings[<<b.module, b.func>>]
          n == Len(s)
      IN /\ n > 0
         /\ b.count = n
         /\ b.total_time = Total(s, n)
         /\ b.min_time \in Range(s) /\ \A x \in Range(s) : b.min_time <= x
         /\ b.max_time \in Range(s) /\ \A x \in Range(s) : b.max_time >= x
         /\ b.avg_time[2] > 0 /\ b.avg_time[1] * n = Total(s, n) * b.avg_time[2]
         /\ b.std_time2[2] > 0
         /\ (n = 1 => b.std_time2[1] = 0)
         /\ (n > 1 => b.std_time2[1] * n * (n - 1)
                        = b.std_time2[2] * (n * TotalSquares(s, n) - Total(s, n) * Total(s, n)))

\* C14's case: the report of the series [1, 3, 2] (milliseconds): count 3,
\* sum 6, mean 2, min 1, max 3, standard deviation 1.
C14_Witness ==
  /\ last.op = "print"
  /\ _timings[<<ModA, "fast_function">>] = <<1, 3, 2>>
  /\ \E b \in last.out :
       /\ b.module = ModA /\ b.func = "fast_function"
       /\ b.count = 3 /\ b.total_time = 6 /\ b.avg_time = <<2, 1>>
       /\ b.min_time = 1 /\ b.max_time = 3 /\ b.std_time2 = <<1, 1>>

\* C15 as claimed: a manual-path call on a function whose identity the
\* previous manual-path call has put in the registry wraps nothing again: the
\* module's binding of the name, the registry entry of the identity and the
\* number of wrappers around the binding stay as the first call left them.
C15_ManualPathTwiceWrapsOnce ==
  [][(/\ last.op = "single" /\ last'.op = "single"
      /\ last'.args[1].mod = last.args[1].mod /\ last'.args[1].name = last.args[1].name
      /\ MakeKey(last'.args[1].mod, last'.args[1].name) \in Registered)
       => LET m == last'.args[1].mod
              n == last'.args[1].name
          IN /\ attrs'[m][n] = attrs[m][n]
             /\ _original_functions'[MakeKey(m, n)] = _original_functions[MakeKey(m, n)]
             /\ Len(attrs'[m][n].layers) = Len(attrs[m][n].layers)]_vars

\* C16 as claimed: in every reachable state each key of the registry maps to
\* a callable without a timing wrapper, and the module's binding of a
\* registered identity carries at most one timing wrapper.
C16_RegistryHoldsOriginals ==
  \A id \in Idents :
    MakeKey(id[1], id[2]) \in Registered
      => /\ _original_functions[MakeKey(id[1], id[2])].layers = <<>>
         /\ Len(attrs[id[1]][id[2]].layers) <= 1

\* How many of the timing wrappers around c record under identity id.
LayersFor(c, id) == Cardinality({i \in DOMAIN c.layers : c.layers[i] = id})

\* The series s is the series t with samples appended, or t itself.
Extends(s, t) == Len(s) >= Len(t) /\ SubSeq(s, 1, Len(t)) = t

SlowCall == Invocation(ModA, "slow_function", <<>>)

\* C17: a call that a function of N makes to a function of N goes through the
\* binding of N, hence through its wrapper: with module_a instrumented and
\* slow_function and fast_function wrapped once, one slow_function() adds one
\* sample for slow_function and one for fast_function. In general an
\* invocation that returns adds to each series one sample per run of a
\* wrapper recording under that identity (the runs of the invoked binding,
\* and for slow_function the one run of fast_function's binding), no other
\* operation than an invocation and restore_all changes a series, and every
\* operation but restore_all leaves each series with what it held, in order.
C17_NestedCallsThroughWrapper ==
  [][/\ (/\ ModA \in _instrumented_modules
         /\ SingleWrapped(ModA, "slow_function") /\ SingleWrapped(ModA, "fast_function")
         /\ InvokeStep(SlowCall) /\ last'.exc = "")
          => (Added(ModA, "slow_function") = 1 /\ Added(ModA, "fast_function") = 1)
     /\ \A c \in Invocations :
          (InvokeStep(c) /\ last'.exc = "")
            => \A id \in Idents :
                 Added(id[1], id[2])
                   = Runs(c) * LayersFor(attrs[c.mod][c.name], id)
                       + (IF c = SlowCall THEN LayersFor(attrs[ModA]["fast_function"], id) ELSE 0)
     /\ last'.op \notin {"invoke", "restore"} => UNCHANGED _timings
     /\ last'.op # "restore" => \A id \in Idents : Extends(_timings'[id], _timings[id])]_vars

\* C17's case: instrument(module_a), then one slow_function(), which left one
\* sample for slow_function and one for fast_function.
C17_Witness ==
  /\ ops = 2
  /\ ModA \in _instrumented_modules
  /\ SingleWrapped(ModA, "slow_function") /\ SingleWrapped(ModA, "fast_function")
  /\ last.op = "invoke" /\ last.exc = "" /\ last.args = <<ModA, "slow_function", <<>>>>
  /\ Len(_timings[<<ModA, "slow_function">>]) = 1
  /\ Len(_timings[<<ModA, "fast_function">>]) = 1

\* The call of InstrumentCalls that lists fast_function in only and in exclude,
\* and a module (time) and a private name (__doc__) in only.
Overlapping ==
  Options(ListFilter(<<"fast_function", "slow_function", "fibo", "time", "__doc__">>),
          StrFilter("fast_function"), {})

\* The names instrument(m, only, exclude) is to wrap: the public names of m
\* bound to a callable that is neither a class nor a module, those in only
\* when only is given, less those in exclude when exclude is given.
Selected(m, only, exclude) ==
  {n \in NameSet(m) :
     /\ ~IsPrivate(n)
     /\ attrs[m][n].kind = "function"
     /\ (only.t # "none" => n \in FilterNames(only))
     /\ (exclude.t # "none" => n \notin FilterNames(exclude))}

C19_PartialInstrumentBlocksLater ==
  [][/\ \A m \in Modules : \A o \in InstrumentCalls :
          InstrumentStep(m, o)
            => /\ m \in _instrumented_modules'
               /\ m \in _instrumented_modules
                    => (/\ last'.already /\ last'.exc = ""
                        /\ UNCHANGED <<attrs, _original_functions, _instrumented_modules, _timings,
                                       sys_modules, _registered_exit, atexitCallbacks>>)
     /\ last'.op # "restore" => _instrumented_modules \subseteq _instrumented_modules']_vars

\* C19's case: instrument(module_a, exclude="fast_function"), which left
\* fast_function unwrapped, then instrument(module_a, only="fast_function"),
\* which returned early and wrapped nothing.
C19_Witness ==
  /\ ops = 2
  /\ last.op = "instrument" /\ last.already
  /\ last.args = <<ModuleObj(ModA), StrFilter("fast_function"), NoFilter, {}>>
  /\ attrs[ModA]["fast_function"] = InitAttr(ModA, "fast_function")
  /\ SingleWrapped(ModA, "slow_function") /\ SingleWrapped(ModA, "medium_function")
  /\ MakeKey(ModA, "fast_function") \notin Registered
  /\ ModA \in _instrumented_modules

\* C20 as claimed: while no instrument call, bulk or manual, has followed the
\* last restore_all (the exit flag is false and the registry is empty, as
\* restore_all leaves them and as any instrument call undoes), every timing
\* series is empty, whatever the caller invokes, a timing wrapper it kept from
\* before the restore included.
C20_NoSampleAfterRestore ==
  (~_registered_exit /\ Registered = {}) => _timings = EmptyTimings

====
